---- MODULE Spec2Model ----
(***************************************************************************)
(* The video-collecting task orchestrator of ViSL-News                     *)
(* (backend/app/modules/collecting/router.py and pipeline.py).             *)
(*                                                                         *)
(* Scheduling.  The application is served by one uvicorn process with one  *)
(* asyncio event loop (main.py:106-108).  Every endpoint of the router is  *)
(* an `async def` whose body holds no `await`, so a handler body runs from *)
(* its first line to its response without any other coroutine running in   *)
(* between: each handler is one action.  process_video_task is a coroutine *)
(* with a single `await` (router.py:118): the part before it and the part  *)
(* after it are one action each.  The framework calls the coroutine after  *)
(* the response of process_video; the code sets no order between that call *)
(* and the handlers of other requests, so they may run in between.         *)
(* VideoPipeline.run executes in a thread of the default executor; what it *)
(* shares with the event loop is the active_tasks dictionary, the database *)
(* and the task's directory, which it touches in its progress callbacks    *)
(* and its file operations.                                                *)
(***************************************************************************)
EXTENDS Integers, Sequences, FiniteSets, TLC

(***************************************************************************)
(* Bounds of the model and constants of the program.                       *)
(***************************************************************************)
\* task ids ever issued by uuid.uuid4() in one behaviour
MaxTasks == 2
\* last minute of the clock
MaxNow == 6
\* max_videos of a request, the most entries of a playlist that are fetched
MaxEntries == 2
\* max_videos of a request for a long playlist
LongPlaylist == 90
\* the entries of the long playlist that have been fetched
FetchedSoFar == 86
\* timedelta(minutes=5), the grace window of cleanup_stuck_tasks
GraceMinutes == 5

TaskIds == 1 .. MaxTasks
\* User.id of the registered users; 0 stands for None (no current user)
Users == {1, 2}
NoUser == 0

\* the time zones the database session can be in, in minutes east of UTC:
\* UTC itself, and UTC+7
UtcOffsets == {0, 420}
Requesters == Users \cup {NoUser}
\* a session west of UTC: UTC-5
WestOffsets == {0 - 300}

NoError == "none"
NoPath == "none"

ActiveStatuses == {"pending", "processing"}
TerminalStatuses == {"completed", "failed", "cancelled"}

(***************************************************************************)
(* request.youtube_url, by the three facts process_video reads of it.      *)
(***************************************************************************)
Urls ==
    { [empty |-> TRUE,  youtube_com |-> FALSE, youtu_be |-> FALSE],
      [empty |-> FALSE, youtube_com |-> FALSE, youtu_be |-> FALSE],
      [empty |-> FALSE, youtube_com |-> TRUE,  youtu_be |-> FALSE],
      [empty |-> FALSE, youtube_com |-> FALSE, youtu_be |-> TRUE] }

\* router.py:213-217: the two HTTP 400 checks of process_video
\* a validation that only refuses the empty URL
UrlRejected_EmptyOnly(url) ==
    url.empty

\* router.py:212-217
UrlRejected(url) ==
    \/ url.empty
    \/ (~url.youtube_com /\ ~url.youtu_be)

VARIABLES
    db,                 \* table collecting_tasks: task_id -> row; of
                        \* started_at and completed_at, whether they are set
    active_tasks,       \* the module-level dict: task_id -> cache entry
    bg,                 \* task_id -> the state of its process_video_task
    work_dirs,          \* task ids whose TASKS_DIR / task_id exists
    zip_files,          \* task ids whose work_dir / "result.zip" exists
    next_id,            \* the next task id uuid4 hands out
    now,                \* datetime.utcnow(), in minutes
    burst,              \* history: the submits handled back to back
    returned_cancelled, \* history: ids a status query answered "cancelled" for
    cancelled_in_fetch, \* history: ids cancel_task hit inside step1_download_video
    db_utc_offset,      \* the time zone of the database session, minutes east
    segments,           \* table segments: id -> status and review_comment
    annotations,        \* table annotations, in the order of the inserts
    requests            \* threadpool worker -> the labeling request it runs

\* the state of the labeling module
labeling == <<segments, annotations, requests>>

\* the state of the collecting module
collecting == <<db, active_tasks, bg, work_dirs, zip_files, next_id, now,
                burst, returned_cancelled, cancelled_in_fetch, db_utc_offset>>

vars == <<db, active_tasks, bg, work_dirs, zip_files, next_id, now, burst,
          returned_cancelled, cancelled_in_fetch, db_utc_offset,
          segments, annotations, requests>>

NoBurst == [user |-> NoUser, free |-> FALSE, n |-> 0, ok |-> 0]

Min(a, b) == IF a < b THEN a ELSE b

\* a removal that removes nothing
Del_Nothing(f, k) == f

\* dict / table updates
Put(f, k, v) == [x \in DOMAIN f \cup {k} |-> IF x = k THEN v ELSE f[x]]
Del(f, k) == [x \in DOMAIN f \ {k} |-> f[x]]

(***************************************************************************)
(* cleanup_stuck_tasks(db, user_id): the table after the sweep.            *)
(***************************************************************************)
\* router.py:49: created_at is a timestamp with time zone that the driver
\* hands back in the time zone of the session; replace(tzinfo=None) keeps
\* its wall-clock reading and drops the offset, and utcnow() is subtracted
\* from that reading
time_since_created(row, clock) ==
    clock - (row.created_at + db_utc_offset)

\* router.py:37-39, 48-50
IsStuck(d, cache, t, clock) ==
    /\ d[t].status \in ActiveStatuses
    /\ t \notin DOMAIN cache
    /\ time_since_created(d[t], clock) > GraceMinutes

cleanup_stuck_tasks(d, cache, user_id, clock) ==
    [t \in DOMAIN d |->
        IF /\ (user_id # NoUser => d[t].user_id = user_id)
           /\ IsStuck(d, cache, t, clock)
        THEN [d[t] EXCEPT !.status = "cancelled",
                          !.message = "Task was cancelled (server restarted)",
                          !.error = "Task was interrupted due to server restart"]
        ELSE d[t]]

(***************************************************************************)
(* process_video: POST /process.                                           *)
(***************************************************************************)
\* a conflict check that looks for a processing task only
ExistingTask_ProcessingOnly(d, user_id) ==
    {t \in DOMAIN d : d[t].user_id = user_id /\ d[t].status = "processing"}

\* router.py:226-229: the owner's rows that are pending or processing
ExistingTask(d, user_id) ==
    {t \in DOMAIN d : d[t].user_id = user_id /\ d[t].status \in ActiveStatuses}

NewRow(user_id, clock) ==
    [user_id |-> user_id, status |-> "pending", progress |-> 0,
     message |-> "Task queued", error |-> NoError, zip_path |-> NoPath,
     created_at |-> clock, started_at |-> FALSE, completed_at |-> FALSE]

NewEntry(user_id) ==
    [status |-> "pending", progress |-> 0, message |-> "Task queued",
     user_id |-> user_id, zip_path |-> NoPath, error |-> NoError,
     cancelled |-> FALSE]

\* where VideoPipeline.run stands: the statement it is at (pc) and its locals
\*   pl, n   info has 'entries' (a playlist); len(entries)
\*   i, dl   idx of step1's loop; len(downloaded_files)
\*   v, made idx of run's loop; the videos that added rows to all_metadata
\*   segs, k, cut   step4: total_segments, idx, len(metadata_list)
\*   zip     step6 returned zip_path
\*   max     max_videos, the argument of run (schemas.py:10)
\*   cb      percent of the callback the thread of run is inside
NotRunning ==
    [pc |-> "none", pl |-> FALSE, n |-> 0, i |-> 0, dl |-> 0, v |-> 0,
     made |-> 0, segs |-> 0, k |-> 0, cut |-> 0, zip |-> FALSE,
     seen |-> FALSE, max |-> MaxEntries, cb |-> 0]

\* background_tasks.add_task(process_video_task, ...): router.py:269-275
Queued == [st |-> "queued", res |-> "none", p |-> NotRunning]

\* the history of back-to-back submits of one user, after one more of them
BurstAfter(user_id, accepted) ==
    IF user_id = NoUser THEN NoBurst
    ELSE IF burst.user = user_id
         THEN [burst EXCEPT !.n = Min(2, @ + 1),
                            !.ok = @ + (IF accepted THEN 1 ELSE 0)]
         ELSE [user |-> user_id,
               free |-> ExistingTask(db, user_id) = {},
               n |-> 1,
               ok |-> IF accepted THEN 1 ELSE 0]

\* router.py:221-223: the sweep that precedes the conflict check
SweptTable(user) ==
    IF user # NoUser
    THEN cleanup_stuck_tasks(db, active_tasks, user, now)
    ELSE db

process_video(user, url) ==
    IF UrlRejected(url)
    THEN /\ burst' = NoBurst
         /\ UNCHANGED <<db, active_tasks, bg, work_dirs, zip_files, next_id,
                        now, returned_cancelled, cancelled_in_fetch, db_utc_offset, labeling>>
    ELSE LET swept == SweptTable(user)
             conflict == user # NoUser /\ ExistingTask(swept, user) # {}
         IN  IF conflict
             THEN /\ db' = swept
                  /\ burst' = BurstAfter(user, FALSE)
                  /\ UNCHANGED <<active_tasks, bg, work_dirs, zip_files,
                                 next_id, now, returned_cancelled, cancelled_in_fetch, db_utc_offset, labeling>>
             ELSE /\ next_id \in TaskIds
                  /\ db' = Put(swept, next_id, NewRow(user, now))
                  /\ active_tasks' = Put(active_tasks, next_id, NewEntry(user))
                  /\ bg' = Put(bg, next_id, Queued)
                  /\ next_id' = next_id + 1
                  /\ burst' = BurstAfter(user, TRUE)
                  /\ UNCHANGED <<work_dirs, zip_files, now, returned_cancelled, cancelled_in_fetch, db_utc_offset, labeling>>

(***************************************************************************)
(* update_task_progress and the progress_callback closure that wraps it.   *)
(***************************************************************************)
\* router.py:111 and router.py:62: the polled cancellation flag
Flagged(t) == t \in DOMAIN active_tasks /\ active_tasks[t].cancelled

\* an update that makes the cache entry when there is none
ProgressInCache_Upsert(cache, t, percent, message) ==
    IF t \in DOMAIN cache
    THEN [cache EXCEPT ![t].progress = percent, ![t].message = message]
    ELSE Put(cache, t, [NewEntry(NoUser) EXCEPT !.progress = percent,
                                               !.message = message])

\* router.py:66-68: the cache after update_task_progress
ProgressInCache(cache, t, percent, message) ==
    IF t \in DOMAIN cache
    THEN [cache EXCEPT ![t].progress = percent, ![t].message = message]
    ELSE cache

\* router.py:71: the cadence of the database write
WritesDb(percent) == percent % 5 = 0 \/ percent >= 100

\* router.py:71-77: the table after update_task_progress
ProgressInDb(d, t, percent, message) ==
    IF WritesDb(percent) /\ t \in DOMAIN d
    THEN [d EXCEPT ![t].progress = percent, ![t].message = message]
    ELSE d

update_task_progress(t, percent, message) ==
    /\ active_tasks' = ProgressInCache(active_tasks, t, percent, message)
    /\ db' = ProgressInDb(db, t, percent, message)

(***************************************************************************)
(* process_video_task, up to its await: router.py:93-118.                  *)
(***************************************************************************)
StartedRow(row) ==
    [row EXCEPT !.status = "processing",
                !.message = "Initializing pipeline...",
                !.started_at = TRUE]

\* a start that leaves the cached status as it is
StartedEntry_KeepStatus(entry) ==
    [entry EXCEPT !.message = "Initializing pipeline..."]

StartedEntry(entry) ==
    [entry EXCEPT !.status = "processing",
                  !.message = "Initializing pipeline..."]

process_video_task_start(t, entry) ==
    /\ t \in DOMAIN bg
    /\ bg[t].st = "queued"
    /\ db' = IF t \in DOMAIN db
             THEN [db EXCEPT ![t] = StartedRow(@)]
             ELSE db
    /\ active_tasks' = IF t \in DOMAIN active_tasks
                       THEN [active_tasks EXCEPT ![t] = StartedEntry(@)]
                       ELSE active_tasks
    \* VideoPipeline.__init__ makes the directory (pipeline.py:278)
    /\ work_dirs' = work_dirs \cup {t}
    /\ bg' = [bg EXCEPT ![t].st = "running", ![t].p.pc = entry]
    /\ burst' = NoBurst
    /\ UNCHANGED <<zip_files, next_id, now, returned_cancelled, cancelled_in_fetch, db_utc_offset, labeling>>

(***************************************************************************)
(* VideoPipeline.run as process_video_task sees it: progress callbacks,    *)
(* then a path, None or an exception.  The callbacks of the stages are     *)
(* spelled out one by one further down (the Step actions).                 *)
(***************************************************************************)
\* pipeline.py:795, a callback between the stages
RunPercents == {75}

RunMessage(percent) ==
    IF percent = 75 THEN "Saving combined metadata..."
    ELSE "Pipeline complete!"

Returned(r, res) == [r EXCEPT !.st = "returned", !.res = res]

\* a callback in the middle of the run
pipeline_progress(t, percent) ==
    /\ t \in DOMAIN bg
    /\ bg[t].st = "running"
    /\ bg[t].p.pc = "run"
    /\ burst' = NoBurst
    /\ IF Flagged(t)
       THEN \* router.py:112 raises; a stage's try/except may swallow it
            /\ \/ bg' = [bg EXCEPT ![t] = Returned(@, "exc_cancelled")]
               \/ bg' = bg
            /\ UNCHANGED <<db, active_tasks, work_dirs, zip_files, next_id,
                           now, returned_cancelled, cancelled_in_fetch, db_utc_offset, labeling>>
       ELSE /\ update_task_progress(t, percent, RunMessage(percent))
            /\ UNCHANGED <<bg, work_dirs, zip_files, next_id, now,
                           returned_cancelled, cancelled_in_fetch, db_utc_offset, labeling>>

\* pipeline.py:814-817: the archive, the callback of 100 and the return
pipeline_complete(t, zipped) ==
    /\ t \in DOMAIN bg
    /\ bg[t].st = "running"
    /\ bg[t].p.pc = "run"
    /\ burst' = NoBurst
    /\ IF Flagged(t)
       THEN /\ bg' = [bg EXCEPT ![t] = Returned(@, "exc_cancelled")]
            /\ UNCHANGED <<db, active_tasks, work_dirs, zip_files, next_id,
                           now, returned_cancelled, cancelled_in_fetch, db_utc_offset, labeling>>
       ELSE /\ zipped => t \in work_dirs
            /\ update_task_progress(t, 100, RunMessage(100))
            /\ zip_files' = IF zipped THEN zip_files \cup {t} ELSE zip_files
            /\ bg' = [bg EXCEPT ![t] =
                        Returned(@, IF zipped THEN "zip" ELSE "none")]
            /\ UNCHANGED <<work_dirs, next_id, now, returned_cancelled, cancelled_in_fetch, db_utc_offset, labeling>>

\* pipeline.py:755, 792: return None; or an exception no stage catches
pipeline_abort(t, res) ==
    /\ t \in DOMAIN bg
    /\ bg[t].st = "running"
    /\ bg[t].p.pc = "run"
    /\ res \in {"none", "exc_other"}
    /\ bg' = [bg EXCEPT ![t] = Returned(@, res)]
    /\ burst' = NoBurst
    /\ UNCHANGED <<db, active_tasks, work_dirs, zip_files, next_id, now,
                   returned_cancelled, cancelled_in_fetch, db_utc_offset, labeling>>

(***************************************************************************)
(* process_video_task, after its await: router.py:120-198.                 *)
(***************************************************************************)
\* a final write that does not record the archive's path
CompletedRow_NoPath(row) ==
    [row EXCEPT !.status = "completed", !.progress = 100,
                !.message = "Processing complete!", !.completed_at = TRUE]

\* router.py:123-128
CompletedRow(row) ==
    [row EXCEPT !.status = "completed", !.progress = 100,
                !.message = "Processing complete!",
                !.zip_path = "result.zip", !.completed_at = TRUE]

\* router.py:132-138
CompletedEntry(entry) ==
    [entry EXCEPT !.status = "completed", !.progress = 100,
                  !.message = "Processing complete!",
                  !.zip_path = "result.zip"]

\* an error path that records the error and leaves the status as it is
ErrorRow_KeepStatus(row, status, error) ==
    [row EXCEPT !.error = error]

\* router.py:140-141, 183-184
ErrorRow(row, status, error) ==
    [row EXCEPT !.status = status, !.error = error]

\* router.py:145-148, 190-193
ErrorEntry(entry, status, error) ==
    [entry EXCEPT !.status = status, !.error = error]

\* a final write that looks for the archive on disk, whatever run returned
FinalStatusWrite_ByFile(t, res) ==
    IF t \notin DOMAIN db
    THEN UNCHANGED <<db, active_tasks>>
    ELSE IF t \in zip_files
         THEN /\ db' = [db EXCEPT ![t] = CompletedRow(@)]
              /\ active_tasks' =
                    IF t \in DOMAIN active_tasks
                    THEN [active_tasks EXCEPT ![t] = CompletedEntry(@)]
                    ELSE active_tasks
         ELSE /\ db' = [db EXCEPT ![t] =
                          ErrorRow(@, "failed",
                                   "Pipeline failed to generate output")]
              /\ active_tasks' =
                    IF t \in DOMAIN active_tasks
                    THEN [active_tasks EXCEPT ![t] =
                            ErrorEntry(@, "failed",
                                       "Pipeline failed to generate output")]
                    ELSE active_tasks

\* router.py:120-150: pipeline.run returned zip_path
FinalStatusWrite(t, res) ==
    IF t \notin DOMAIN db
    THEN UNCHANGED <<db, active_tasks>>
    ELSE IF res = "zip" /\ t \in zip_files
         THEN /\ db' = [db EXCEPT ![t] = CompletedRow(@)]
              /\ active_tasks' =
                    IF t \in DOMAIN active_tasks
                    THEN [active_tasks EXCEPT ![t] = CompletedEntry(@)]
                    ELSE active_tasks
         ELSE /\ db' = [db EXCEPT ![t] =
                          ErrorRow(@, "failed",
                                   "Pipeline failed to generate output")]
              /\ active_tasks' =
                    IF t \in DOMAIN active_tasks
                    THEN [active_tasks EXCEPT ![t] =
                            ErrorEntry(@, "failed",
                                       "Pipeline failed to generate output")]
                    ELSE active_tasks

\* router.py:169-193: pipeline.run raised
ExceptionWrite(t, status, message) ==
    /\ db' = IF t \in DOMAIN db
             THEN [db EXCEPT ![t] = ErrorRow(@, status, message)]
             ELSE db
    /\ active_tasks' =
          IF t \in DOMAIN active_tasks
          THEN [active_tasks EXCEPT ![t] = ErrorEntry(@, status, message)]
          ELSE active_tasks

\* router.py:152-166: the CancelledError of update_task_progress reached
\* process_video_task
CancelledErrorWrite(t) ==
    /\ db' = IF t \in DOMAIN db
             THEN [db EXCEPT ![t].status = "cancelled",
                             ![t].message = "Task cancelled by user"]
             ELSE db
    /\ active_tasks' =
          IF t \in DOMAIN active_tasks
          THEN [active_tasks EXCEPT ![t].status = "cancelled",
                                    ![t].message = "Task cancelled by user"]
          ELSE active_tasks

process_video_task_finish(t) ==
    /\ t \in DOMAIN bg
    /\ bg[t].st = "returned"
    /\ CASE bg[t].res \in {"zip", "none"} ->
                FinalStatusWrite(t, bg[t].res)
         [] bg[t].res = "exc_async_cancelled" ->
                CancelledErrorWrite(t)
         [] bg[t].res = "exc_cancelled" ->
                ExceptionWrite(t, "cancelled", "Task cancelled by user")
         [] OTHER ->
                ExceptionWrite(t, "failed", "pipeline error")
    /\ bg' = [bg EXCEPT ![t].st = "finished", ![t].res = "none"]
    /\ burst' = NoBurst
    /\ UNCHANGED <<work_dirs, zip_files, next_id, now, returned_cancelled, cancelled_in_fetch, db_utc_offset, labeling>>

(***************************************************************************)
(* cancel_task: POST /cancel/{task_id}.                                    *)
(***************************************************************************)
\* a cancel that does not look at the status of the row
CancelResponse_NoStateCheck(t, requester) ==
    IF t \notin DOMAIN db THEN 404
    ELSE IF requester # NoUser /\ db[t].user_id # requester THEN 403
    ELSE 200

\* the response of cancel_task
CancelResponse(t, requester) ==
    IF t \notin DOMAIN db THEN 404
    ELSE IF requester # NoUser /\ db[t].user_id # requester THEN 403
    ELSE IF db[t].status \notin ActiveStatuses THEN 400
    ELSE 200

\* a cancel that sets the flag and leaves the cached status as it is
CancelledEntry_FlagOnly(entry) ==
    [entry EXCEPT !.cancelled = TRUE]

\* router.py:304-307
CancelledEntry(entry) ==
    [entry EXCEPT !.cancelled = TRUE, !.status = "cancelled",
                  !.message = "Dang huy..."]

\* router.py:310-312
CancelledRow(row) ==
    [row EXCEPT !.status = "cancelled", !.message = "Task cancelled by user",
                !.error = "Cancelled by user"]

\* a cancel that leaves the task's directory in place
RemoveWorkDir_Keep(t) ==
    UNCHANGED <<work_dirs, zip_files>>

\* router.py:316-322: rm -rf of the task's directory
RemoveWorkDir(t) ==
    /\ work_dirs' = work_dirs \ {t}
    /\ zip_files' = zip_files \ {t}

\* the run of t is inside step1_download_video: past the callback of
\* pipeline.py:303 and not past the one of pipeline.py:426
FetchPcs == {"s1_8", "s1_dl", "s1_mp4", "s1_signer", "s1_15"}

InFetch(t) ==
    /\ t \in DOMAIN bg
    /\ bg[t].st = "running"
    /\ bg[t].p.pc \in FetchPcs

cancel_task(t, requester) ==
    /\ burst' = NoBurst
    /\ IF CancelResponse(t, requester) = 200
       THEN /\ active_tasks' =
                  IF t \in DOMAIN active_tasks
                  THEN [active_tasks EXCEPT ![t] = CancelledEntry(@)]
                  ELSE active_tasks
            /\ db' = [db EXCEPT ![t] = CancelledRow(@)]
            /\ RemoveWorkDir(t)
            /\ cancelled_in_fetch' =
                  IF InFetch(t) THEN cancelled_in_fetch \cup {t}
                  ELSE cancelled_in_fetch
            /\ UNCHANGED <<bg, next_id, now, returned_cancelled,
                           db_utc_offset, labeling>>
       ELSE UNCHANGED <<db, active_tasks, bg, work_dirs, zip_files, next_id,
                        now, returned_cancelled, cancelled_in_fetch, db_utc_offset, labeling>>

(***************************************************************************)
(* delete_task: DELETE /task/{task_id}.                                    *)
(***************************************************************************)
delete_task(t) ==
    /\ burst' = NoBurst
    /\ IF t \in DOMAIN db
       THEN /\ RemoveWorkDir(t)
            /\ db' = Del(db, t)
            /\ active_tasks' = IF t \in DOMAIN active_tasks
                               THEN Del(active_tasks, t)
                               ELSE active_tasks
            /\ UNCHANGED <<bg, next_id, now, returned_cancelled, cancelled_in_fetch, db_utc_offset, labeling>>
       ELSE UNCHANGED <<db, active_tasks, bg, work_dirs, zip_files, next_id,
                        now, returned_cancelled, cancelled_in_fetch, db_utc_offset, labeling>>

(***************************************************************************)
(* get_task_status: GET /status/{task_id}.                                 *)
(***************************************************************************)
\* a status query that reads the row before the cache entry
TaskView_DbFirst(t) ==
    IF t \in DOMAIN db
    THEN [status |-> db[t].status, progress |-> db[t].progress,
          message |-> db[t].message, error |-> db[t].error]
    ELSE IF t \in DOMAIN active_tasks
         THEN [status |-> active_tasks[t].status,
               progress |-> active_tasks[t].progress,
               message |-> active_tasks[t].message,
               error |-> active_tasks[t].error]
         ELSE [status |-> "not_found", progress |-> 0, message |-> "",
               error |-> NoError]

\* the TaskStatus returned, 404 as status "not_found"
TaskView(t) ==
    IF t \in DOMAIN active_tasks
    THEN [status |-> active_tasks[t].status,
          progress |-> active_tasks[t].progress,
          message |-> active_tasks[t].message,
          error |-> active_tasks[t].error]
    ELSE IF t \in DOMAIN db
         THEN [status |-> db[t].status, progress |-> db[t].progress,
               message |-> db[t].message, error |-> db[t].error]
         ELSE [status |-> "not_found", progress |-> 0, message |-> "",
               error |-> NoError]

get_task_status(t) ==
    /\ returned_cancelled' =
          IF TaskView(t).status = "cancelled"
          THEN returned_cancelled \cup {t}
          ELSE returned_cancelled
    /\ burst' = NoBurst
    /\ UNCHANGED <<db, active_tasks, bg, work_dirs, zip_files, next_id, now,
                   cancelled_in_fetch, db_utc_offset, labeling>>

(***************************************************************************)
(* download_result: GET /download/{task_id}.                               *)
(***************************************************************************)
\* router.py:364-376: zip_path and status come from the cache entry when it
\* holds a zip_path, else both come from the row
DownloadSource(t) ==
    IF t \in DOMAIN active_tasks /\ active_tasks[t].zip_path # NoPath
    THEN [found |-> TRUE, zip_path |-> active_tasks[t].zip_path,
          status |-> active_tasks[t].status]
    ELSE IF t \in DOMAIN db
         THEN [found |-> TRUE, zip_path |-> db[t].zip_path,
               status |-> db[t].status]
         ELSE [found |-> FALSE, zip_path |-> NoPath, status |-> "not_found"]

\* a download that serves whatever path the record holds
DownloadResponse_NoStatusCheck(t) ==
    LET src == DownloadSource(t)
    IN  IF ~src.found THEN 404
        ELSE IF src.zip_path = NoPath \/ t \notin zip_files THEN 404
        ELSE 200

\* router.py:372-388: the response of download_result
DownloadResponse(t) ==
    LET src == DownloadSource(t)
    IN  IF ~src.found THEN 404
        ELSE IF src.status # "completed" THEN 400
        ELSE IF src.zip_path = NoPath \/ t \notin zip_files THEN 404
        ELSE 200

download_result(t) ==
    /\ DownloadResponse(t) \in {200, 400, 404}
    /\ burst' = NoBurst
    /\ UNCHANGED <<db, active_tasks, bg, work_dirs, zip_files, next_id, now,
                   returned_cancelled, cancelled_in_fetch, db_utc_offset, labeling>>

(***************************************************************************)
(* get_my_tasks: GET /my-tasks, which sweeps before it lists.              *)
(***************************************************************************)
get_my_tasks(user) ==
    /\ db' = cleanup_stuck_tasks(db, active_tasks, user, now)
    /\ burst' = NoBurst
    /\ UNCHANGED <<active_tasks, bg, work_dirs, zip_files, next_id, now,
                   returned_cancelled, cancelled_in_fetch, db_utc_offset, labeling>>

(***************************************************************************)
(* The environment: the server process is restarted (the module-level      *)
(* dict and every background task are gone, the database and the files     *)
(* stay), and time passes.                                                 *)
(***************************************************************************)
Restart ==
    /\ active_tasks' = << >>
    /\ bg' = [t \in DOMAIN bg |->
                IF bg[t].st = "finished" THEN bg[t]
                ELSE [bg[t] EXCEPT !.st = "killed", !.res = "none"]]
    /\ burst' = NoBurst
    /\ UNCHANGED <<db, work_dirs, zip_files, next_id, now, returned_cancelled, cancelled_in_fetch, db_utc_offset, labeling>>

\* the only reader of the clock is cleanup_stuck_tasks, and only for a
\* pending/processing row that has no cache entry (router.py:48-50): the
\* clock of the model advances in the states that hold such a row
Orphaned(t) ==
    /\ t \in DOMAIN db
    /\ db[t].status \in ActiveStatuses
    /\ t \notin DOMAIN active_tasks

\* the clock is read when the first grace window ends, and every minute
\* after that
Tick ==
    /\ now < MaxNow
    /\ \E t \in TaskIds : Orphaned(t)
    /\ now' = IF now < GraceMinutes THEN GraceMinutes ELSE now + 1
    /\ burst' = NoBurst
    /\ UNCHANGED <<db, active_tasks, bg, work_dirs, zip_files, next_id,
                   returned_cancelled, cancelled_in_fetch, db_utc_offset, labeling>>

(***************************************************************************)
(* VideoPipeline, callback by callback.  One step is one call of           *)
(* update_progress together with the code that follows it up to the next   *)
(* call: the outcomes of the external tools in between (yt-dlp, ffmpeg,    *)
(* WhisperX, InsightFace, zipfile) are the choices of the step.            *)
(***************************************************************************)
\* segments of a transcript
MaxSegments == 2

At(r, pc) == [r EXCEPT !.p.pc = pc]

\* the text of pipeline.py:816 for a number of videos
VideosMessage(count) ==
    CASE count = 0 -> "Pipeline complete! Processed 0 video(s)"
      [] count = 1 -> "Pipeline complete! Processed 1 video(s)"
      [] count = 2 -> "Pipeline complete! Processed 2 video(s)"
      [] OTHER -> "Pipeline complete! Processed 3 video(s)"

\* router.py:112: Exception("Task cancelled by user") leaves run
Raised(r) == Returned(r, "exc_cancelled")

\* router.py:111-112: the callback has found the flag of the task set
Seen(r) == [r EXCEPT !.p.seen = TRUE]

\* pipeline.py:291-295 with router.py:109-113.  `caught` are the states the
\* run is in after the callback raised (out of run, or after the except
\* clause around the call), `after` those it reaches when it did not
update_progress(t, percent, message, caught, after) ==
    /\ burst' = NoBurst
    /\ IF Flagged(t)
       THEN /\ \E q \in caught : bg' = [bg EXCEPT ![t] = Seen(q)]
            /\ UNCHANGED <<db, active_tasks>>
       ELSE /\ update_task_progress(t, percent, message)
            /\ \E q \in after : bg' = [bg EXCEPT ![t] = q]

Running(t, pcs) ==
    /\ t \in DOMAIN bg
    /\ bg[t].st = "running"
    /\ bg[t].p.pc \in pcs

\* the files of the task can be read and written
DirOk(t) == t \in work_dirs

Files(t, S) == IF DirOk(t) THEN S ELSE {}

\* pipeline.py:427, 431 and 753-765: step1 returns downloaded_files to run
Step1Return(r) ==
    IF r.p.dl = 0 THEN Returned(r, "none")
    ELSE [r EXCEPT !.p.pc = "v_base", !.p.v = 0, !.p.i = 0]

\* pipeline.py:346-354: the loop over entries from index j; an entry of a
\* playlist may be None and is skipped
NextEntry(r, j) ==
    {[r EXCEPT !.p.pc = "s1_dl", !.p.i = x] :
        x \in {y \in j .. (r.p.n - 1) : r.p.pl \/ y = j}}
    \cup (IF r.p.pl \/ j >= r.p.n THEN {At(r, "s1_15")} ELSE {})

\* a run that gives up unless every video yielded clips
AfterLoop_RequireAll(r) ==
    IF r.p.made < r.p.dl THEN Returned(r, "none") ELSE At(r, "r_75")

\* a run that goes on to clustering whatever the videos yielded
AfterLoop_Always(r) ==
    At(r, "r_75")

\* pipeline.py:761-765 and 789-795: the next video of run's loop, or its end
AfterLoop(r) ==
    IF r.p.made = 0 THEN Returned(r, "none") ELSE At(r, "r_75")

\* a loop that ends after the video it has just handled
NextVideo_StopAfterFirst(r) ==
    AfterLoop([r EXCEPT !.p.segs = 0, !.p.k = 0, !.p.cut = 0])

NextVideo(r) ==
    LET q == [r EXCEPT !.p.segs = 0, !.p.k = 0, !.p.cut = 0]
    IN  IF q.p.v + 1 < q.p.dl
        THEN [q EXCEPT !.p.pc = "v_base", !.p.v = @ + 1]
        ELSE AfterLoop(q)

\* pipeline.py:541-592: the next segment that is cut, from index j
NextSegment(r, j) ==
    {[r EXCEPT !.p.pc = "s4_clip", !.p.k = x, !.p.cut = @ + 1] :
        x \in j .. (r.p.segs - 1)}
    \cup {At(r, "s4_85")}

\* pipeline.py:763
BaseProgress(p) == 15 + (p.v * 55) \div p.dl

\* pipeline.py:591
ClipProgress(p) == 70 + (p.k * 15) \div p.segs

NoFiles == UNCHANGED <<work_dirs, zip_files, next_id, now, returned_cancelled, cancelled_in_fetch, db_utc_offset, labeling>>

\* pipeline.py:749
run_start(t) ==
    /\ Running(t, {"run0"})
    /\ update_progress(t, 0, "Starting pipeline...",
                       {Raised(bg[t])}, {At(bg[t], "s1_5")})
    /\ NoFiles

\* pipeline.py:297-431
step1_download_video(t) ==
    LET r == bg[t] IN
    /\ NoFiles
    /\ \/ /\ Running(t, {"s1_5"})
          /\ update_progress(t, 5, "Downloading video(s) from YouTube...",
                {Raised(r)},
                {Returned(r, "none")}
                \cup {[r EXCEPT !.p.pc = "s1_8", !.p.pl = TRUE, !.p.n = m] :
                        m \in 0 .. r.p.max}
                \cup NextEntry([r EXCEPT !.p.n = 1], 0))
       \/ /\ Running(t, {"s1_8"})
          /\ update_progress(t, 8, "Found playlist",
                {Step1Return(r)}, NextEntry(r, 0))
       \/ /\ Running(t, {"s1_dl"})
          /\ update_progress(t, 10 + r.p.i, "Downloading video",
                {Step1Return(r)},
                NextEntry(r, r.p.i + 1) \cup Files(t, {At(r, "s1_mp4")}))
       \/ /\ Running(t, {"s1_mp4"})
          /\ update_progress(t, 11 + r.p.i, "Converting video to MP4...",
                NextEntry(r, r.p.i + 1),
                NextEntry(r, r.p.i + 1) \cup Files(t, {At(r, "s1_signer")}))
       \/ /\ Running(t, {"s1_signer"})
          /\ update_progress(t, 12 + r.p.i, "Checking for signer in video...",
                NextEntry(r, r.p.i + 1),
                NextEntry(r, r.p.i + 1)
                \cup Files(t, NextEntry([r EXCEPT !.p.dl = @ + 1], r.p.i + 1)))
       \/ /\ Running(t, {"s1_15"})
          /\ update_progress(t, 15, "Downloaded video(s)",
                {Step1Return(r)}, {Step1Return(r)})

\* pipeline.py:761-795: the callbacks of run's loop over video_paths
run_videos(t) ==
    LET r == bg[t] IN
    /\ NoFiles
    /\ \/ /\ Running(t, {"v_base"})
          /\ update_progress(t, BaseProgress(r.p), "Processing video",
                {Raised(r)}, {At(r, "v_crop")})
       \/ /\ Running(t, {"v_crop"})
          /\ update_progress(t, BaseProgress(r.p) + 5, "Cropping signer...",
                {Raised(r)}, {At(r, "s2_20")})
       \/ /\ Running(t, {"v_transcribe"})
          /\ update_progress(t, BaseProgress(r.p) + 15, "Transcribing...",
                {Raised(r)}, {At(r, "s3_40")})
       \/ /\ Running(t, {"v_split"})
          /\ update_progress(t, BaseProgress(r.p) + 25, "Splitting clips...",
                {Raised(r)}, {At(r, "s4_70")})
       \/ /\ Running(t, {"r_75"})
          /\ update_progress(t, 75, "Saving combined metadata...",
                {Raised(r)},
                {Returned(r, "exc_other")} \cup Files(t, {At(r, "s5_80")}))

\* pipeline.py:433-462
step2_crop_signer(t) ==
    LET r == bg[t] IN
    /\ NoFiles
    /\ \/ /\ Running(t, {"s2_20"})
          /\ update_progress(t, 20, "Cropping signer region...",
                {Raised(r)},
                {NextVideo(r)} \cup Files(t, {At(r, "s2_35")}))
       \/ /\ Running(t, {"s2_35"})
          /\ update_progress(t, 35, "Cropped signer",
                {NextVideo(r)}, {At(r, "v_transcribe")})

\* pipeline.py:464-513
step3_transcribe(t) ==
    LET r == bg[t] IN
    /\ NoFiles
    /\ \/ /\ Running(t, {"s3_40"})
          /\ update_progress(t, 40, "Loading transcription model...",
                {Raised(r)}, {NextVideo(r), At(r, "s3_50")})
       \/ /\ Running(t, {"s3_50"})
          /\ update_progress(t, 50, "Transcribing audio...",
                {NextVideo(r)},
                {NextVideo(r)} \cup Files(t, {At(r, "s3_55")}))
       \/ /\ Running(t, {"s3_55"})
          /\ update_progress(t, 55, "Aligning timestamps...",
                {NextVideo(r)},
                {NextVideo(r)} \cup Files(t, {At(r, "s3_65")}))
       \/ /\ Running(t, {"s3_65"})
          /\ update_progress(t, 65, "Transcribed",
                {NextVideo(r)}, {At(r, "v_split")})

\* pipeline.py:515-609 and 783-787
step4_split_clips(t) ==
    LET r == bg[t] IN
    /\ NoFiles
    /\ \/ /\ Running(t, {"s4_70"})
          /\ update_progress(t, 70, "Splitting into sentence clips...",
                {Raised(r)},
                {NextVideo(r)}
                \cup Files(t, UNION {NextSegment([r EXCEPT !.p.segs = m], 0) :
                                        m \in 1 .. MaxSegments}))
       \/ /\ Running(t, {"s4_clip"})
          /\ update_progress(t, ClipProgress(r.p), "Cutting clip",
                {NextVideo(r)}, NextSegment(r, r.p.k + 1))
       \/ /\ Running(t, {"s4_85"})
          /\ update_progress(t, 85, "Saving metadata...",
                {NextVideo(r)},
                {NextVideo(r)}
                \cup Files(t, {NextVideo([r EXCEPT !.p.made =
                                   @ + (IF r.p.cut > 0 THEN 1 ELSE 0)])}))

\* pipeline.py:611-698 inside the try of run, pipeline.py:806-811: whatever
\* step5 raises takes run to its callback of 100 "Pipeline failed"
step5_face_clustering(t) ==
    LET r == bg[t] IN
    /\ NoFiles
    /\ \/ /\ Running(t, {"s5_80"})
          /\ update_progress(t, 80, "Starting face clustering...",
                {At(r, "r_fail")}, {At(r, "r_fail"), At(r, "s5_82")})
       \/ /\ Running(t, {"s5_82"})
          /\ update_progress(t, 82, "Extracting face embeddings...",
                {At(r, "r_fail")},
                {At(r, "r_fail")} \cup Files(t, {At(r, "s5_88")}))
       \/ /\ Running(t, {"s5_88"})
          /\ update_progress(t, 88, "Clustering face embeddings...",
                {At(r, "r_fail")}, {At(r, "r_fail"), At(r, "s5_92")})
       \/ /\ Running(t, {"s5_92"})
          /\ update_progress(t, 92, "Updating metadata with signer IDs...",
                {At(r, "r_fail")},
                {At(r, "r_fail")} \cup Files(t, {At(r, "s5_95")}))
       \/ /\ Running(t, {"s5_95"})
          /\ update_progress(t, 95, "Face clustering complete",
                {At(r, "r_fail")}, {At(r, "s6_96")})

\* pipeline.py:700-735
step6_create_zip(t) ==
    LET r == bg[t] IN
    /\ UNCHANGED <<work_dirs, next_id, now, returned_cancelled, cancelled_in_fetch, db_utc_offset, labeling>>
    /\ \/ /\ Running(t, {"s6_96"})
          /\ \E written \in BOOLEAN :
                /\ written => DirOk(t)
                /\ zip_files' = IF written /\ ~Flagged(t)
                                THEN zip_files \cup {t} ELSE zip_files
                /\ update_progress(t, 96, "Creating ZIP archive...",
                      {Raised(r)},
                      {At(r, "r_100")}
                      \cup (IF written THEN {At(r, "s6_99")} ELSE {}))
       \/ /\ Running(t, {"s6_99"})
          /\ zip_files' = zip_files
          /\ update_progress(t, 99, "ZIP created",
                {At(r, "r_100")}, {[r EXCEPT !.p.pc = "r_100", !.p.zip = TRUE]})

\* pipeline.py:816: f"Pipeline complete! Processed {total_videos} video(s),
\* ..." with total_videos = len(video_paths) of pipeline.py:757, the videos
\* step1 returned
CompleteMessage(p) ==
    VideosMessage(p.dl)

\* pipeline.py:810-811 and 816-817: the last callback and the return
run_return(t) ==
    LET r == bg[t] IN
    /\ NoFiles
    /\ \/ /\ Running(t, {"r_100"})
          /\ update_progress(t, 100, CompleteMessage(r.p),
                {Raised(r)},
                {Returned(r, IF r.p.zip THEN "zip" ELSE "none")})
       \/ /\ Running(t, {"r_fail"})
          /\ update_progress(t, 100, "Pipeline failed: Face clustering error",
                {Raised(r)}, {Returned(r, "none")})

(***************************************************************************)
(* The labeling module.  Its handlers are plain `def` functions, which     *)
(* FastAPI runs on the threads of a pool: requests overlap, and a step of  *)
(* a request is one statement sent to the database.  The session of a      *)
(* request holds the segment as it was loaded, and its commit writes the   *)
(* columns whose assigned value differs from the loaded one.               *)
(***************************************************************************)
\* rows of table segments; rows of table annotations; threads of the pool
MaxSegmentRows == 2
MaxAnnotations == 3
MaxWorkers == 2

SegmentIds == 1 .. MaxSegmentRows
Workers == 1 .. MaxWorkers

NoComment == "none"
Comments == {NoComment, "fix"}

\* users.role is free text, "annotator" unless the registration names one
Accounts ==
    { [id |-> 1, role |-> "admin"],
      [id |-> 2, role |-> "annotator"],
      [id |-> 3, role |-> "guest"] }

\* labeling/router.py:611-624: upload_zip inserts segments with status raw
NewSegment == [status |-> "raw", review_comment |-> NoComment]

\* a thread of the pool that runs no request
Idle ==
    [pc |-> "idle", seg |-> 0, loaded |-> NewSegment, comment |-> NoComment,
     max_version |-> 0, expert_id |-> 0]

\* labeling/router.py:40-44
require_admin(account) ==
    IF account.role # "admin" THEN 403 ELSE 200

\* labeling/router.py:47-51
require_annotator_or_admin(account) ==
    IF account.role \notin {"admin", "annotator"} THEN 403 ELSE 200

\* the commit of a session: the UPDATE carries the columns of the segment
\* whose assigned value is not the loaded one
Flushed(row, loaded, assigned) ==
    [status |-> IF assigned.status # loaded.status
                THEN assigned.status ELSE row.status,
     review_comment |-> IF assigned.review_comment # loaded.review_comment
                        THEN assigned.review_comment
                        ELSE row.review_comment]

AnnotationsOf(seg) ==
    {i \in 1 .. Len(annotations) : annotations[i].segment_id = seg}

\* labeling/router.py:395-397: func.max(Annotation.version) ... or 0
MaxVersion(seg) ==
    IF AnnotationsOf(seg) = {} THEN 0
    ELSE CHOOSE v \in {annotations[i].version : i \in AnnotationsOf(seg)} :
            \A i \in AnnotationsOf(seg) : annotations[i].version <= v

\* labeling/router.py:377, 387-392: the answer of create_annotation before
\* it reads the versions; 200 stands for going on
CreateAnnotationResponse(account, seg) ==
    IF require_annotator_or_admin(account) # 200 THEN 403
    ELSE IF account.role = "admin" THEN 403
    ELSE IF seg \notin DOMAIN segments THEN 404
    ELSE 200

\* labeling/router.py:331, 335-340
ApproveResponse(account, seg) ==
    IF require_admin(account) # 200 THEN 403
    ELSE IF seg \notin DOMAIN segments THEN 404
    ELSE IF segments[seg].status # "expert_labeled" THEN 400
    ELSE 200

\* labeling/router.py:354, 358-363
RejectResponse(account, seg) ==
    IF require_admin(account) # 200 THEN 403
    ELSE IF seg \notin DOMAIN segments THEN 404
    ELSE IF segments[seg].status # "expert_labeled" THEN 400
    ELSE 200

Creating ==
    {w \in Workers : requests[w].pc \in {"create_max", "create_commit"}}

\* labeling/router.py:374-392: the dependencies and the query of the segment
create_annotation(w, account, seg) ==
    /\ requests[w].pc = "idle"
    /\ Len(annotations) + Cardinality(Creating) < MaxAnnotations
    /\ requests' =
          IF CreateAnnotationResponse(account, seg) = 200
          THEN [requests EXCEPT ![w] =
                  [Idle EXCEPT !.pc = "create_max", !.seg = seg,
                               !.loaded = segments[seg],
                               !.expert_id = account.id]]
          ELSE requests
    /\ UNCHANGED <<segments, annotations, collecting>>

\* labeling/router.py:394-397
create_annotation_max_version(w) ==
    /\ requests[w].pc = "create_max"
    /\ requests' = [requests EXCEPT ![w].pc = "create_commit",
                                    ![w].max_version =
                                        MaxVersion(requests[w].seg)]
    /\ UNCHANGED <<segments, annotations, collecting>>

\* labeling/router.py:399-416
create_annotation_commit(w) ==
    LET r == requests[w] IN
    /\ r.pc = "create_commit"
    /\ annotations' = Append(annotations,
                             [segment_id |-> r.seg, expert_id |-> r.expert_id,
                              version |-> r.max_version + 1])
    /\ segments' = [segments EXCEPT ![r.seg] =
                      Flushed(@, r.loaded,
                              [status |-> "expert_labeled",
                               review_comment |-> NoComment])]
    /\ requests' = [requests EXCEPT ![w] = Idle]
    /\ UNCHANGED collecting

\* labeling/router.py:328-340
approve_segment(w, account, seg) ==
    /\ requests[w].pc = "idle"
    /\ requests' =
          IF ApproveResponse(account, seg) = 200
          THEN [requests EXCEPT ![w] =
                  [Idle EXCEPT !.pc = "approve_commit", !.seg = seg,
                               !.loaded = segments[seg]]]
          ELSE requests
    /\ UNCHANGED <<segments, annotations, collecting>>

\* labeling/router.py:342-344
approve_segment_commit(w) ==
    LET r == requests[w] IN
    /\ r.pc = "approve_commit"
    /\ segments' = [segments EXCEPT ![r.seg] =
                      Flushed(@, r.loaded,
                              [status |-> "reviewed",
                               review_comment |-> NoComment])]
    /\ requests' = [requests EXCEPT ![w] = Idle]
    /\ UNCHANGED <<annotations, collecting>>

\* labeling/router.py:350-363
reject_segment(w, account, seg, comment) ==
    /\ requests[w].pc = "idle"
    /\ requests' =
          IF RejectResponse(account, seg) = 200
          THEN [requests EXCEPT ![w] =
                  [Idle EXCEPT !.pc = "reject_commit", !.seg = seg,
                               !.loaded = segments[seg],
                               !.comment = comment]]
          ELSE requests
    /\ UNCHANGED <<segments, annotations, collecting>>

\* labeling/router.py:365-367
reject_segment_commit(w) ==
    LET r == requests[w] IN
    /\ r.pc = "reject_commit"
    /\ segments' = [segments EXCEPT ![r.seg] =
                      Flushed(@, r.loaded,
                              [status |-> "needs_fix",
                               review_comment |-> r.comment])]
    /\ requests' = [requests EXCEPT ![w] = Idle]
    /\ UNCHANGED <<annotations, collecting>>

\* the segments of an imported dataset, no annotation, no request
InitLabeling ==
    /\ segments = [s \in SegmentIds |-> NewSegment]
    /\ annotations = << >>
    /\ requests = [w \in Workers |-> Idle]

Init ==
    /\ db = << >>
    /\ active_tasks = << >>
    /\ bg = << >>
    /\ work_dirs = {}
    /\ zip_files = {}
    /\ next_id = 1
    /\ now = 0
    /\ burst = NoBurst
    /\ returned_cancelled = {}
    /\ cancelled_in_fetch = {}
    /\ db_utc_offset \in UtcOffsets
    /\ InitLabeling

Next ==
    \/ \E u \in Requesters, url \in Urls : process_video(u, url)
    \/ \E t \in TaskIds : process_video_task_start(t, "run")
    \/ \E t \in TaskIds, percent \in RunPercents : pipeline_progress(t, percent)
    \/ \E t \in TaskIds, zipped \in BOOLEAN : pipeline_complete(t, zipped)
    \/ \E t \in TaskIds, res \in {"none", "exc_other"} : pipeline_abort(t, res)
    \/ \E t \in TaskIds : process_video_task_finish(t)
    \/ \E t \in TaskIds, u \in Requesters : cancel_task(t, u)
    \/ \E t \in TaskIds : delete_task(t)
    \/ \E t \in TaskIds : get_task_status(t)
    \/ \E t \in TaskIds : download_result(t)
    \/ \E u \in Users : get_my_tasks(u)
    \/ Restart
    \/ Tick

Spec == Init /\ [][Next]_vars

(***************************************************************************)
(* One accepted task and its run, callback by callback: the state after    *)
(* the first process_video, and everything that can happen to that task.   *)
(***************************************************************************)
InitRun ==
    \E user \in Requesters :
        /\ db = Put(<< >>, 1, NewRow(user, 0))
        /\ active_tasks = Put(<< >>, 1, NewEntry(user))
        /\ bg = Put(<< >>, 1, Queued)
        /\ work_dirs = {}
        /\ zip_files = {}
        /\ next_id = 2
        /\ now = 0
        /\ burst = NoBurst
        /\ returned_cancelled = {}
        /\ cancelled_in_fetch = {}
        /\ db_utc_offset \in UtcOffsets
        /\ InitLabeling

NextRun ==
    \/ process_video_task_start(1, "run0")
    \/ run_start(1)
    \/ step1_download_video(1)
    \/ run_videos(1)
    \/ step2_crop_signer(1)
    \/ step3_transcribe(1)
    \/ step4_split_clips(1)
    \/ step5_face_clustering(1)
    \/ step6_create_zip(1)
    \/ run_return(1)
    \/ process_video_task_finish(1)
    \/ \E u \in Requesters : cancel_task(1, u)
    \/ delete_task(1)
    \/ get_task_status(1)
    \/ download_result(1)
    \/ \E u \in Users : get_my_tasks(u)
    \/ Restart
    \/ Tick

SpecRun == InitRun /\ [][NextRun]_vars

(***************************************************************************)
(* The labeling requests of a dataset, on the threads of the pool.         *)
(***************************************************************************)
InitLabel ==
    /\ Init
    /\ db_utc_offset = 0

NextLabel ==
    \/ \E w \in Workers, account \in Accounts, seg \in 0 .. MaxSegmentRows :
            create_annotation(w, account, seg)
    \/ \E w \in Workers : create_annotation_max_version(w)
    \/ \E w \in Workers : create_annotation_commit(w)
    \/ \E w \in Workers, account \in Accounts, seg \in 0 .. MaxSegmentRows :
            approve_segment(w, account, seg)
    \/ \E w \in Workers : approve_segment_commit(w)
    \/ \E w \in Workers, account \in Accounts, seg \in 0 .. MaxSegmentRows,
            comment \in Comments :
            reject_segment(w, account, seg, comment)
    \/ \E w \in Workers : reject_segment_commit(w)

SpecLabel == InitLabel /\ [][NextLabel]_vars

(***************************************************************************)
(* The properties of the task lifecycle.                                   *)
(***************************************************************************)
\* C1: an owner never has more than one durable task that is pending or
\* processing.
C1_OneActiveTaskPerOwner ==
    \A o \in Users : Cardinality(ExistingTask(db, o)) <= 1

\* C2: of two or more back-to-back valid submits of one owner who had no
\* active task, each handled whole before the next, exactly one is accepted
\* and the others are answered with the conflict.
C2_OneOfConcurrentSubmitsAccepted ==
    (burst.user # NoUser /\ burst.free) =>
        /\ burst.ok <= 1
        /\ (burst.n = 2 => burst.ok = 1)

C2_Witness ==
    /\ burst.user # NoUser
    /\ burst.free
    /\ burst.n = 2
    /\ burst.ok = 1
    /\ Cardinality(ExistingTask(db, burst.user)) = 1

\* C3: a task whose run was inside the fetch stage when cancel_task hit it
\* ends with status cancelled, in the row and in the cache entry, once its
\* background task has finished.
C3_CancelInFetchEndsCancelled ==
    \A t \in cancelled_in_fetch :
        (t \in DOMAIN bg /\ bg[t].st = "finished") =>
            /\ t \in DOMAIN db => db[t].status = "cancelled"
            /\ t \in DOMAIN active_tasks =>
                    active_tasks[t].status = "cancelled"

\* C4: a task for which a status query has answered cancelled is never
\* reported completed afterwards.
C4_NeverCompletedAfterCancelled ==
    \A t \in returned_cancelled :
        /\ TaskView(t).status # "completed"
        /\ t \in DOMAIN db => db[t].status # "completed"
        /\ t \in DOMAIN active_tasks => active_tasks[t].status # "completed"

\* the run made its last callback and returned the archive's path,
\* cancel_task removed the archive, a status query answered cancelled, and
\* the final write of process_video_task found no archive
C4_Witness ==
    \E t \in returned_cancelled :
        /\ t \in DOMAIN bg
        /\ bg[t].st = "finished"
        /\ bg[t].p.pc = "r_100"
        /\ bg[t].p.zip
        /\ t \in DOMAIN db
        /\ db[t].status = "failed"
        /\ db[t].error = "Pipeline failed to generate output"
        /\ TaskView(t).status = "failed"

\* C5: once the row or the cache entry of a task is completed, failed or
\* cancelled, none of its fields changes again; it can only be removed.
C5_TerminalIsFinal ==
    [][\A t \in TaskIds :
          /\ (t \in DOMAIN db /\ db[t].status \in TerminalStatuses
                /\ t \in DOMAIN db') => db'[t] = db[t]
          /\ (t \in DOMAIN active_tasks
                /\ active_tasks[t].status \in TerminalStatuses
                /\ t \in DOMAIN active_tasks') =>
                    active_tasks'[t] = active_tasks[t]]_vars

\* C6: every change of a task's status, in the row and in the cache
\* entry, is pending to processing, processing to completed, failed or
\* cancelled, or pending to cancelled.
C6_OnlyStateMachineTransitions ==
    [][LET StatusChanges ==
               {<<"pending", "processing">>, <<"processing", "completed">>,
                <<"processing", "failed">>, <<"processing", "cancelled">>,
                <<"pending", "cancelled">>}
       IN  \A t \in TaskIds :
              /\ (t \in DOMAIN db /\ t \in DOMAIN db'
                    /\ db'[t].status # db[t].status) =>
                        <<db[t].status, db'[t].status>> \in StatusChanges
              /\ (t \in DOMAIN active_tasks /\ t \in DOMAIN active_tasks'
                    /\ active_tasks'[t].status # active_tasks[t].status) =>
                        <<active_tasks[t].status, active_tasks'[t].status>>
                            \in StatusChanges]_vars

\* C7: while a status query answers processing for a task from its cache
\* entry, the progress it answers never goes down from one callback of the
\* pipeline to the next.
C7_ProgressNeverDecreases ==
    [][\A t \in TaskIds :
          (t \in DOMAIN active_tasks /\ t \in DOMAIN active_tasks'
                /\ TaskView(t).status = "processing"
                /\ TaskView(t)'.status = "processing") =>
              TaskView(t)'.progress >= TaskView(t).progress]_vars

\* C8: when process_video_task has finished, the row of its task, if it
\* still exists, is completed, failed or cancelled, whether pipeline.run
\* returned a path, returned None or raised.
C8_FinishedTaskIsTerminal ==
    \A t \in DOMAIN bg :
        (bg[t].st = "finished" /\ t \in DOMAIN db) =>
            db[t].status \in TerminalStatuses

\* pipeline.run raised an exception that is not the cancellation, and the
\* handler of process_video_task has written the row
C8_Witness ==
    \E t \in DOMAIN bg :
        /\ bg[t].st = "finished"
        /\ t \in DOMAIN db
        /\ db[t].status = "failed"
        /\ db[t].error = "pipeline error"

\* C9: when the sweep runs for an owner (my-tasks, or a submit with a valid
\* URL), every row of that owner that is pending or processing, has no cache
\* entry and was created more than the grace window ago becomes cancelled,
\* with the message and the error of a server restart.
C9_SweepCancelsOrphans ==
    [][\A u \in Users :
          (\/ get_my_tasks(u)
           \/ \E url \in Urls : ~UrlRejected(url) /\ process_video(u, url)) =>
          \A t \in DOMAIN db :
              (/\ db[t].user_id = u
               /\ db[t].status \in ActiveStatuses
               /\ t \notin DOMAIN active_tasks
               /\ now - db[t].created_at > GraceMinutes) =>
                  /\ t \in DOMAIN db'
                  /\ db'[t].status = "cancelled"
                  /\ db'[t].message = "Task was cancelled (server restarted)"
                  /\ db'[t].error =
                        "Task was interrupted due to server restart"]_vars

\* C10: when each pending or processing row of an owner is an orphan of a
\* restart (no cache entry) created more than the grace window ago, the
\* owner's next submit with a valid URL is accepted: a new pending row of
\* that owner is created.
C10_SubmitAfterGraceAccepted ==
    [][\A u \in Users, url \in Urls :
          (/\ ~UrlRejected(url)
           /\ process_video(u, url)
           /\ ExistingTask(db, u) # {}
           /\ \A t \in ExistingTask(db, u) :
                 /\ t \notin DOMAIN active_tasks
                 /\ now - db[t].created_at > GraceMinutes) =>
              /\ next_id' = next_id + 1
              /\ next_id \in DOMAIN db'
              /\ db'[next_id].user_id = u
              /\ db'[next_id].status = "pending"]_vars

(***************************************************************************)
(* The run of the service when the requests that sweep keep coming: the    *)
(* clock advances, every user keeps asking for /my-tasks and every         *)
(* requester keeps submitting.                                             *)
(***************************************************************************)
SweepsKeepComing ==
    /\ WF_vars(Tick)
    /\ \A u \in Users : WF_vars(get_my_tasks(u))
    /\ \A u \in Requesters : WF_vars(\E url \in Urls : process_video(u, url))

SpecFair == Init /\ [][Next]_vars /\ SweepsKeepComing

\* C11: with a database session in UTC, a pending or processing row that has
\* no cache entry and is older than the grace window, whoever owns it and
\* also when nobody does, is eventually cancelled (or deleted), as long as
\* submits and my-tasks requests keep coming.
C11_OrphansEventuallyReclaimed ==
    \A t \in TaskIds :
        (/\ db_utc_offset = 0
         /\ Orphaned(t)
         /\ now - db[t].created_at > GraceMinutes)
            ~> (t \notin DOMAIN db \/ db[t].status = "cancelled")

\* C12: a cancel_task that succeeds sets the cancelled flag of the cache
\* entry, if there is one, and the status of the row to cancelled in one
\* step, and a status query right after it answers cancelled.
C12_CancelIsImmediate ==
    [][\A t \in TaskIds, u \in Requesters :
          (cancel_task(t, u) /\ CancelResponse(t, u) = 200) =>
              /\ t \in DOMAIN active_tasks =>
                    (t \in DOMAIN active_tasks' /\ active_tasks'[t].cancelled)
              /\ db'[t].status = "cancelled"
              /\ TaskView(t)'.status = "cancelled"]_vars

\* cancel_task has succeeded and the run has not come to its next callback
C12_Witness ==
    \E t \in DOMAIN bg :
        /\ bg[t].st = "running"
        /\ bg[t].p.pc = "s3_50"
        /\ Flagged(t)
        /\ db[t].status = "cancelled"
        /\ TaskView(t).status = "cancelled"
        /\ TaskView(t).message = "Dang huy..."

\* C13: cancel_task on a task that has an owner, by a requester who is not
\* that owner (another user, or a caller without a valid credential), is
\* answered 403 and leaves the row, the cache entry and the directory as
\* they were.
C13_CancelByOthersForbidden ==
    /\ [](\A t \in DOMAIN db, u \in Requesters :
            (db[t].user_id # NoUser /\ db[t].user_id # u) =>
                CancelResponse(t, u) = 403)
    /\ [][\A t \in TaskIds, u \in Requesters :
            (/\ cancel_task(t, u)
             /\ t \in DOMAIN db
             /\ db[t].user_id # NoUser
             /\ db[t].user_id # u) =>
                UNCHANGED <<db, active_tasks, work_dirs, zip_files>>]_vars

\* C14 as stated: cancel_task on a task whose row is completed, failed or
\* cancelled is answered 400, whoever asks, and changes nothing.
C14_TerminalCancelRejected400 ==
    /\ [](\A t \in DOMAIN db, u \in Requesters :
            db[t].status \in TerminalStatuses => CancelResponse(t, u) = 400)
    /\ [][\A t \in TaskIds, u \in Requesters :
            (/\ cancel_task(t, u)
             /\ t \in DOMAIN db
             /\ db[t].status \in TerminalStatuses) =>
                UNCHANGED <<db, active_tasks, work_dirs, zip_files>>]_vars

\* C14, amended: cancel_task on a task whose row is completed, failed or
\* cancelled changes nothing; it is answered 403 when the requester is a
\* user other than the owner of the row, and 400 otherwise.
C14_TerminalCancelRejected ==
    /\ [](\A t \in DOMAIN db, u \in Requesters :
            db[t].status \in TerminalStatuses =>
                CancelResponse(t, u) =
                    (IF u # NoUser /\ db[t].user_id # u THEN 403 ELSE 400))
    /\ [][\A t \in TaskIds, u \in Requesters :
            (/\ cancel_task(t, u)
             /\ t \in DOMAIN db
             /\ db[t].status \in TerminalStatuses) =>
                UNCHANGED <<db, active_tasks, work_dirs, zip_files>>]_vars

\* a completed task with its directory and archive, whose owner's cancel is
\* answered 400 and another user's 403
C14_Witness ==
    \E t \in DOMAIN db :
        /\ db[t].status = "completed"
        /\ t \in work_dirs
        /\ t \in zip_files
        /\ db[t].user_id # NoUser
        /\ CancelResponse(t, db[t].user_id) = 400
        /\ \E u \in Users : CancelResponse(t, u) = 403

\* C15: get_task_status answers with the status, progress and message of
\* the cache entry when the id is in active_tasks, with those of the row
\* otherwise, and with not-found exactly when the id is in neither; it
\* answers for every task that has a row, terminal or orphaned by a restart.
C15_StatusReadsCacheThenRow ==
    \A t \in TaskIds :
        LET v == TaskView(t)
        IN  /\ t \in DOMAIN active_tasks =>
                  /\ v.status = active_tasks[t].status
                  /\ v.progress = active_tasks[t].progress
                  /\ v.message = active_tasks[t].message
            /\ (t \notin DOMAIN active_tasks /\ t \in DOMAIN db) =>
                  /\ v.status = db[t].status
                  /\ v.progress = db[t].progress
                  /\ v.message = db[t].message
            /\ v.status = "not_found" <=>
                  (t \notin DOMAIN active_tasks /\ t \notin DOMAIN db)

\* a status query has answered cancelled for a task whose cache entry is
\* gone after a restart: the answer comes from the row
C15_Witness ==
    \E t \in returned_cancelled :
          /\ t \notin DOMAIN active_tasks
          /\ t \in DOMAIN db
          /\ TaskView(t).status = "cancelled"
          /\ TaskView(t).message = "Task cancelled by user"

\* C16: delete_task on a task that has a row, whatever its status, removes
\* the row, the cache entry and the working directory; on an id without a
\* row it is answered not-found and changes nothing.
C16_DeleteRemovesEverything ==
    [][\A t \in TaskIds :
          delete_task(t) =>
              IF t \in DOMAIN db
              THEN /\ t \notin DOMAIN db'
                   /\ t \notin DOMAIN active_tasks'
                   /\ t \notin work_dirs'
                   /\ t \notin zip_files'
              ELSE UNCHANGED <<db, active_tasks, bg, work_dirs, zip_files>>]_vars

\* a task deleted while its run was between two callbacks
C16_Witness ==
    \E t \in DOMAIN bg :
        /\ bg[t].st = "running"
        /\ bg[t].p.pc = "s3_55"
        /\ t \notin DOMAIN db
        /\ t \notin DOMAIN active_tasks
        /\ t \notin work_dirs

\* C17: the working directory of a task is removed by delete_task only.
C17_OnlyDeleteRemovesDir ==
    [][\A t \in TaskIds :
          (t \in work_dirs /\ t \notin work_dirs') => delete_task(t)]_vars

\* C18: download_result serves the archive only for a task whose status is
\* completed; for a task that a status query reports pending, processing,
\* failed or cancelled it is answered 400, from whichever tier it reads; it
\* is answered 404 for an id in neither tier and for a missing archive.
C18_DownloadOnlyCompleted ==
    \A t \in TaskIds :
        /\ DownloadResponse(t) = 200 =>
              /\ TaskView(t).status = "completed"
              /\ t \in DOMAIN db /\ db[t].status = "completed"
              /\ t \in zip_files
        /\ TaskView(t).status \in
                {"pending", "processing", "failed", "cancelled"} =>
              DownloadResponse(t) = 400
        /\ (t \notin DOMAIN db /\ t \notin DOMAIN active_tasks) =>
              DownloadResponse(t) = 404
        /\ (TaskView(t).status = "completed" /\ t \notin zip_files) =>
              DownloadResponse(t) = 404

\* the archive is on disk and the run has made its last callback, but the
\* final write has not been made: the download is refused
C18_Witness ==
    \E t \in DOMAIN bg :
        /\ bg[t].st = "returned"
        /\ bg[t].res = "zip"
        /\ t \in zip_files
        /\ t \in DOMAIN active_tasks
        /\ active_tasks[t].status = "processing"
        /\ DownloadResponse(t) = 400

\* C19: in the row and in the cache entry, zip_path is set only if the
\* status is completed, and a completed task has zip_path set and progress
\* 100.
C19_ArtifactIffCompleted ==
    \A t \in TaskIds :
        /\ t \in DOMAIN db =>
              /\ db[t].zip_path # NoPath => db[t].status = "completed"
              /\ db[t].status = "completed" =>
                    (db[t].zip_path # NoPath /\ db[t].progress = 100)
        /\ t \in DOMAIN active_tasks =>
              /\ active_tasks[t].zip_path # NoPath =>
                    active_tasks[t].status = "completed"
              /\ active_tasks[t].status = "completed" =>
                    /\ active_tasks[t].zip_path # NoPath
                    /\ active_tasks[t].progress = 100

C19_Witness ==
    \E t \in DOMAIN db :
        /\ db[t].status = "completed"
        /\ db[t].zip_path = "result.zip"
        /\ t \in DOMAIN active_tasks
        /\ active_tasks[t].status = "completed"
        /\ active_tasks[t].zip_path = "result.zip"

\* C20: in the row and in the cache entry, error is set only if the status
\* is failed or cancelled.
C20_ErrorOnlyWhenFailedOrCancelled ==
    \A t \in TaskIds :
        /\ (t \in DOMAIN db /\ db[t].error # NoError) =>
              db[t].status \in {"failed", "cancelled"}
        /\ (t \in DOMAIN active_tasks /\ active_tasks[t].error # NoError) =>
              active_tasks[t].status \in {"failed", "cancelled"}

(***************************************************************************)
(* The properties of the run over several videos.                          *)
(***************************************************************************)
\* the callbacks of run's loop and of the three stages it calls per video
ItemPcs ==
    {"v_base", "v_crop", "v_transcribe", "v_split", "s2_20", "s2_35",
     "s3_40", "s3_50", "s3_55", "s3_65", "s4_70", "s4_clip", "s4_85"}

\* the callbacks of clustering and packaging, and the last callback of run
ClusterPackagePcs ==
    {"r_75", "s5_80", "s5_82", "s5_88", "s5_92", "s5_95", "s6_96", "s6_99",
     "r_100", "r_fail"}

\* run has returned None from its callback of 100: step5 raised, or step6
\* returned no path
NoArchiveReturned(r) ==
    \/ r.p.pc = "r_fail"
    \/ r.p.pc = "r_100" /\ ~r.p.zip

\* C21: a video that fails in crop, transcribe or split is the only one
\* dropped: run returns None out of its loop over the videos only when no
\* video yielded clips, it never counts more videos with clips than it
\* fetched, and a run that made its last callback with the archive written
\* and never found the flag set ends completed with the archive recorded.
C21_OnlyFailingItemDropped ==
    \A t \in DOMAIN bg :
        /\ (bg[t].st = "returned" /\ bg[t].res = "none"
                /\ bg[t].p.pc \in ItemPcs) => bg[t].p.made = 0
        /\ bg[t].p.made <= bg[t].p.dl
        /\ (bg[t].st = "finished" /\ bg[t].p.pc = "r_100" /\ bg[t].p.zip
                /\ ~bg[t].p.seen /\ t \in zip_files /\ t \in DOMAIN db) =>
              /\ db[t].status = "completed"
              /\ db[t].zip_path = "result.zip"

\* two videos were fetched, one of them was dropped, and the task is
\* completed with its archive
C21_Witness ==
    \E t \in DOMAIN bg :
        /\ bg[t].st = "finished"
        /\ bg[t].p.dl = 2
        /\ bg[t].p.made = 1
        /\ t \in DOMAIN db
        /\ db[t].status = "completed"
        /\ db[t].zip_path = "result.zip"
        /\ t \in zip_files

\* C22: when run has made its last callback of a completed run, the number
\* of videos in the message of the task is the number of videos that passed
\* crop, transcribe and split.
C22_FinalMessageCountsSurvivors ==
    \A t \in DOMAIN bg :
        (/\ bg[t].st = "returned"
         /\ bg[t].res = "zip"
         /\ t \in DOMAIN active_tasks
         /\ ~active_tasks[t].cancelled) =>
            active_tasks[t].message = VideosMessage(bg[t].p.made)

\* C23: when step5_face_clustering raised or step6_create_zip returned no
\* path, run returns no archive, and once process_video_task has finished
\* the row and the cache entry are failed or cancelled, never completed,
\* with an error and without zip_path; they are failed, with the error of
\* the missing output, when no callback of the run found the flag set.
C23_ClusterOrZipFailureFails ==
    \A t \in DOMAIN bg :
        NoArchiveReturned(bg[t]) =>
            /\ bg[t].res # "zip"
            /\ (bg[t].st = "finished" /\ t \in DOMAIN db) =>
                  /\ db[t].status \in {"failed", "cancelled"}
                  /\ db[t].error # NoError
                  /\ db[t].zip_path = NoPath
                  /\ ~bg[t].p.seen =>
                        /\ db[t].status = "failed"
                        /\ db[t].error = "Pipeline failed to generate output"
            /\ (bg[t].st = "finished" /\ t \in DOMAIN active_tasks) =>
                  /\ active_tasks[t].status \in {"failed", "cancelled"}
                  /\ active_tasks[t].zip_path = NoPath
                  /\ ~bg[t].p.seen =>
                        /\ active_tasks[t].status = "failed"
                        /\ active_tasks[t].error =
                              "Pipeline failed to generate output"

\* every fetched video yielded clips, step6 wrote part of the archive and
\* failed, and the task is failed without zip_path
C23_Witness ==
    \E t \in DOMAIN bg :
        /\ bg[t].st = "finished"
        /\ bg[t].p.pc = "r_100"
        /\ ~bg[t].p.zip
        /\ bg[t].p.dl >= 1
        /\ bg[t].p.made = bg[t].p.dl
        /\ t \in zip_files
        /\ t \in DOMAIN db
        /\ db[t].status = "failed"
        /\ db[t].error = "Pipeline failed to generate output"
        /\ db[t].zip_path = NoPath

\* C24: a run in which no video survived the fetch, or no video yielded
\* clips, never reaches clustering or packaging, writes no archive and
\* returns none; once process_video_task has finished, the row is failed or
\* cancelled with an error and without zip_path, failed when no callback of
\* the run found the flag set.
C24_NoSurvivorNoArtifact ==
    \A t \in DOMAIN bg :
        /\ bg[t].p.pc \in ClusterPackagePcs =>
              (bg[t].p.dl >= 1 /\ bg[t].p.made >= 1)
        /\ bg[t].p.made = 0 =>
              /\ bg[t].res # "zip"
              /\ t \notin zip_files
              /\ (bg[t].st = "finished" /\ t \in DOMAIN db) =>
                    /\ db[t].status \in {"failed", "cancelled"}
                    /\ db[t].error # NoError
                    /\ db[t].zip_path = NoPath
                    /\ ~bg[t].p.seen => db[t].status = "failed"
              /\ (bg[t].st = "finished" /\ t \in DOMAIN active_tasks) =>
                    /\ active_tasks[t].status \in {"failed", "cancelled"}
                    /\ active_tasks[t].zip_path = NoPath

\* two videos were fetched and none of them yielded clips: the task is
\* failed
C24_Witness ==
    \E t \in DOMAIN bg :
        /\ bg[t].st = "finished"
        /\ bg[t].p.dl = 2
        /\ bg[t].p.made = 0
        /\ bg[t].p.pc \in ItemPcs
        /\ t \in DOMAIN db
        /\ db[t].status = "failed"
        /\ db[t].error = "Pipeline failed to generate output"
        /\ t \notin zip_files

\* C25: a submit with an empty or non-YouTube URL changes no row, no cache
\* entry, no background task and no file; a submit refused because the owner
\* has a pending or processing row after the sweep is never a step that
\* adds a row, a cache entry or a background task, or hands out a task id.
C25_RejectedSubmitCreatesNothing ==
    [][/\ \A url \in Urls :
            ((url.empty \/ (~url.youtube_com /\ ~url.youtu_be))
                /\ \E u \in Requesters : process_video(u, url)) =>
                  UNCHANGED <<db, active_tasks, bg, next_id, work_dirs,
                              zip_files>>
       /\ (\/ DOMAIN db' # DOMAIN db
           \/ DOMAIN active_tasks' # DOMAIN active_tasks
           \/ DOMAIN bg' # DOMAIN bg
           \/ next_id' # next_id) =>
             \A u \in Users, url \in Urls :
                 (/\ ~url.empty
                  /\ url.youtube_com \/ url.youtu_be
                  /\ ExistingTask(SweptTable(u), u) # {}) =>
                     ~process_video(u, url)]_vars

\* a user's submit has just been refused because of the user's active task
C25_Witness ==
    /\ burst.user # NoUser
    /\ burst.n = 1
    /\ burst.ok = 0
    /\ ~burst.free
    /\ ExistingTask(db, burst.user) # {}

\* the callbacks that are followed by a call of an external tool: yt-dlp,
\* ffmpeg, the signer check, the crop, WhisperX, the clip cutting, the face
\* clustering, the archive
WorkPcs ==
    {"s1_5", "s1_dl", "s1_mp4", "s1_signer", "s2_20", "s3_40", "s3_50",
     "s3_55", "s4_70", "s4_clip", "s5_80", "s5_82", "s5_88", "s5_92",
     "s6_96"}

\* the run of task t takes a step: a callback and the code up to the next
RunStep(t) ==
    /\ t \in DOMAIN bg
    /\ bg[t].st = "running"
    /\ bg'[t] # bg[t]
    /\ bg'[t].st # "killed"

\* C29: after the first callback of a run that found the cancellation flag
\* set, every callback of the run that precedes external work finds it set
\* too and raises: the run starts no download, conversion, signer check,
\* crop, transcription, clip cutting, clustering or archiving.
C29_NoWorkAfterFlagSeen ==
    [][\A t \in TaskIds :
          (RunStep(t) /\ bg[t].p.seen /\ bg[t].p.pc \in WorkPcs) =>
              Flagged(t)]_vars

\* the stage a callback belongs to, in the order of pipeline.run: 1 the
\* fetch, 2 the start of a video, 3 crop, 4 transcribe, 5 split, 6 the
\* combined metadata, 7 clustering, 8 packaging, 9 the last callback
Stage(pc) ==
    CASE pc = "run0" -> 0
      [] pc \in FetchPcs \cup {"s1_5"} -> 1
      [] pc = "v_base" -> 2
      [] pc \in {"v_crop", "s2_20", "s2_35"} -> 3
      [] pc \in {"v_transcribe", "s3_40", "s3_50", "s3_55", "s3_65"} -> 4
      [] pc \in {"v_split", "s4_70", "s4_clip", "s4_85"} -> 5
      [] pc = "r_75" -> 6
      [] pc \in {"s5_80", "s5_82", "s5_88", "s5_92", "s5_95"} -> 7
      [] pc \in {"s6_96", "s6_99"} -> 8
      [] OTHER -> 9

\* C30: a run goes through its stages in the order fetch, then for each
\* fetched video in turn crop, transcribe, split, then clustering, then
\* packaging, and never back: clustering is entered once, from the callback
\* of the combined metadata, when the loop has handled the last video;
\* packaging is entered once, from the last callback of clustering.
C30_StagesInFixedOrder ==
    [][\A t \in TaskIds :
          (RunStep(t) /\ bg'[t].st = "running") =>
            LET p == bg[t].p
                q == bg'[t].p
            IN  /\ \/ Stage(q.pc) >= Stage(p.pc)
                   \/ q.pc = "v_base" /\ Stage(p.pc) \in 3 .. 5
                /\ q.v # p.v =>
                      /\ q.v = p.v + 1
                      /\ q.pc = "v_base"
                      /\ Stage(p.pc) \in 3 .. 5
                /\ (Stage(q.pc) = 2 /\ Stage(p.pc) = 1) => q.v = 0
                /\ (Stage(q.pc) \in 3 .. 5 /\ Stage(q.pc) # Stage(p.pc)) =>
                      /\ Stage(p.pc) = Stage(q.pc) - 1
                      /\ q.v = p.v
                /\ (Stage(q.pc) >= 6 /\ Stage(p.pc) < 6) =>
                      /\ q.pc = "r_75"
                      /\ Stage(p.pc) \in 3 .. 5
                      /\ p.v = p.dl - 1
                /\ (Stage(q.pc) = 7 /\ Stage(p.pc) # 7) => p.pc = "r_75"
                /\ (Stage(q.pc) = 8 /\ Stage(p.pc) # 8) => p.pc = "s5_95"
                /\ (Stage(q.pc) = 9 /\ Stage(p.pc) # 9) =>
                      Stage(p.pc) \in 7 .. 8]_vars

\* packaging has started in a run over two videos, after the second one
C30_Witness ==
    \E t \in DOMAIN bg :
        /\ bg[t].st = "running"
        /\ bg[t].p.pc = "s6_96"
        /\ bg[t].p.dl = 2
        /\ bg[t].p.v = 1
        /\ bg[t].p.made = 2

(***************************************************************************)
(* The properties of the labeling workflow.                                *)
(***************************************************************************)
\* C26: the versions of the annotations of a segment are pairwise distinct
\* and are 1..n for its n annotations: each create_annotation has added the
\* version after the highest one, also when two requests for the segment
\* overlap.
C26_VersionsAreOneToN ==
    \A s \in SegmentIds :
        /\ \A i, j \in AnnotationsOf(s) :
              i # j => annotations[i].version # annotations[j].version
        /\ {annotations[i].version : i \in AnnotationsOf(s)} =
              1 .. Cardinality(AnnotationsOf(s))

\* C27: when create_annotation has committed, the segment is expert_labeled
\* and its review_comment is empty, whatever it was before; an admin's
\* create_annotation is answered 403 and changes no segment and no
\* annotation.
C27_AnnotationMakesExpertLabeled ==
    /\ [][\A w \in Workers :
            create_annotation_commit(w) =>
              segments'[requests[w].seg] =
                  [status |-> "expert_labeled",
                   review_comment |-> NoComment]]_vars
    /\ [](\A account \in Accounts, seg \in 0 .. MaxSegmentRows :
            account.role = "admin" =>
                CreateAnnotationResponse(account, seg) = 403)
    /\ [][\A w \in Workers, account \in Accounts,
             seg \in 0 .. MaxSegmentRows :
            (account.role = "admin" /\ create_annotation(w, account, seg)) =>
                UNCHANGED labeling]_vars

\* C28: a segment becomes reviewed or needs_fix only from expert_labeled,
\* never from raw; approve_segment and reject_segment of an admin are
\* answered 400 for a segment that is not expert_labeled, and leave the
\* segments as they are.
C28_ReviewOnlyFromExpertLabeled ==
    /\ [][\A s \in SegmentIds :
            (/\ segments'[s].status # segments[s].status
             /\ segments'[s].status \in {"reviewed", "needs_fix"}) =>
                segments[s].status = "expert_labeled"]_vars
    /\ [](\A account \in Accounts, s \in SegmentIds :
            (account.role = "admin"
                /\ segments[s].status # "expert_labeled") =>
                  /\ ApproveResponse(account, s) = 400
                  /\ RejectResponse(account, s) = 400)
    /\ [][\A w \in Workers, account \in Accounts, s \in SegmentIds :
            (/\ segments[s].status # "expert_labeled"
             /\ \/ approve_segment(w, account, s)
                \/ \E comment \in Comments :
                      reject_segment(w, account, s, comment)) =>
                UNCHANGED labeling]_vars

(***************************************************************************)
(* The fetch of a long playlist: one task of user 1 that was submitted     *)
(* with max_videos = LongPlaylist, from the point where step1 has fetched  *)
(* the first FetchedSoFar entries of a playlist of that many entries, to   *)
(* the end of step1.                                                       *)
(***************************************************************************)
\* pipeline.py:354, 373, 390: the callbacks of the entry with index idx
EntryCallbacks(idx) ==
    <<[percent |-> 10 + idx, message |-> "Downloading video"],
      [percent |-> 11 + idx, message |-> "Converting video to MP4..."],
      [percent |-> 12 + idx, message |-> "Checking for signer in video..."]>>

\* router.py:70-77: the callbacks of the entries 0 .. j - 1 that wrote the
\* row, as <<idx, number of the callback>>
RowWriters(j) ==
    {c \in (0 .. j - 1) \X (1 .. 3) :
        WritesDb(EntryCallbacks(c[1])[c[2]].percent)}

\* the table after the callbacks of the entries 0 .. j - 1: the row holds
\* what the last of them that wrote it has left
FetchedDb(d, t, j) ==
    IF RowWriters(j) = {} THEN d
    ELSE LET last == CHOOSE c \in RowWriters(j) :
                        \A e \in RowWriters(j) :
                            3 * e[1] + e[2] <= 3 * c[1] + c[2]
             cb == EntryCallbacks(last[1])[last[2]]
         IN  ProgressInDb(d, t, cb.percent, cb.message)

\* the cache after them: every callback writes the entry
FetchedCache(cache, t, j) ==
    IF j = 0 THEN cache
    ELSE LET cb == EntryCallbacks(j - 1)[3]
         IN  ProgressInCache(cache, t, cb.percent, cb.message)

InitFetch ==
    /\ db = FetchedDb(Put(<< >>, 1, StartedRow(NewRow(1, 0))),
                      1, FetchedSoFar)
    /\ active_tasks = FetchedCache(Put(<< >>, 1, StartedEntry(NewEntry(1))),
                                   1, FetchedSoFar)
    /\ bg = Put(<< >>, 1,
                [st |-> "running", res |-> "none",
                 p |-> [NotRunning EXCEPT !.pc = "s1_dl", !.pl = TRUE,
                                          !.n = LongPlaylist,
                                          !.i = FetchedSoFar,
                                          !.dl = FetchedSoFar,
                                          !.max = LongPlaylist]])
    /\ work_dirs = {1}
    /\ zip_files = {}
    /\ next_id = 2
    /\ now = 0
    /\ burst = NoBurst
    /\ returned_cancelled = {}
    /\ cancelled_in_fetch = {}
    /\ db_utc_offset = 0
    /\ InitLabeling

NextFetch ==
    \/ step1_download_video(1)
    \/ \E u \in Requesters : cancel_task(1, u)

SpecFetch == InitFetch /\ [][NextFetch]_vars

(***************************************************************************)
(* One accepted task whose callbacks are taken statement by statement:     *)
(* pipeline.run executes in a thread of the executor (router.py:118), so   *)
(* the handlers of the event loop run between the statements of            *)
(* progress_callback and update_task_progress.                             *)
(***************************************************************************)
\* pipeline.py:795 and 591: a callback of run and one of step4
CallbackPercents == {75, 77}

CallbackMessage(percent) ==
    IF percent = 77 THEN "Cutting clip" ELSE RunMessage(percent)

\* router.py:109-113: the check of progress_callback and the call
progress_callback(t, percent) ==
    /\ Running(t, {"run"})
    /\ bg' = [bg EXCEPT ![t] =
                IF Flagged(t) THEN Seen(Raised(@))
                ELSE [@ EXCEPT !.p.pc = "cb_61", !.p.cb = percent]]
    /\ burst' = NoBurst
    /\ UNCHANGED <<db, active_tasks>>
    /\ NoFiles

\* router.py:61-62: the check of update_task_progress
update_task_progress_check(t) ==
    /\ Running(t, {"cb_61"})
    /\ bg' = [bg EXCEPT ![t] =
                IF Flagged(t) THEN Returned(@, "exc_async_cancelled")
                ELSE At(@, "cb_65")]
    /\ burst' = NoBurst
    /\ UNCHANGED <<db, active_tasks>>
    /\ NoFiles

\* router.py:65-67
update_task_progress_cache(t) ==
    /\ Running(t, {"cb_65"})
    /\ active_tasks' = ProgressInCache(active_tasks, t, bg[t].p.cb,
                                       CallbackMessage(bg[t].p.cb))
    /\ bg' = [bg EXCEPT ![t] = At(@, "cb_70")]
    /\ burst' = NoBurst
    /\ UNCHANGED db
    /\ NoFiles

\* router.py:70-77, and the return to run
update_task_progress_row(t) ==
    /\ Running(t, {"cb_70"})
    /\ db' = IF WritesDb(bg[t].p.cb)
             THEN ProgressInDb(db, t, bg[t].p.cb, CallbackMessage(bg[t].p.cb))
             ELSE db
    /\ bg' = [bg EXCEPT ![t] = At(@, "run")]
    /\ burst' = NoBurst
    /\ UNCHANGED active_tasks
    /\ NoFiles

NextCallback ==
    \/ process_video_task_start(1, "run")
    \/ \E percent \in CallbackPercents : progress_callback(1, percent)
    \/ update_task_progress_check(1)
    \/ update_task_progress_cache(1)
    \/ update_task_progress_row(1)
    \/ \E res \in {"none", "exc_other"} : pipeline_abort(1, res)
    \/ process_video_task_finish(1)
    \/ \E u \in Requesters : cancel_task(1, u)
    \/ delete_task(1)
    \/ get_task_status(1)

SpecCallback == InitRun /\ [][NextCallback]_vars

(***************************************************************************)
(* The service with a database session west of UTC.                        *)
(***************************************************************************)
InitWest ==
    /\ db = << >>
    /\ active_tasks = << >>
    /\ bg = << >>
    /\ work_dirs = {}
    /\ zip_files = {}
    /\ next_id = 1
    /\ now = 0
    /\ burst = NoBurst
    /\ returned_cancelled = {}
    /\ cancelled_in_fetch = {}
    /\ db_utc_offset \in WestOffsets
    /\ InitLabeling

SpecWest == InitWest /\ [][Next]_vars

(***************************************************************************)
(* The properties of the two tiers, of deletion and of the owners' runs.   *)
(***************************************************************************)
\* C31: no cache entry is completed, failed or cancelled: the entry of a
\* task is removed when the task reaches a terminal status.
C31_NoTerminalCacheEntry ==
    \A t \in DOMAIN active_tasks :
        active_tasks[t].status \notin TerminalStatuses

\* C34: no owner has two tasks whose pipeline.run is executing at the same
\* time.
C34_OneRunPerOwner ==
    \A t1, t2 \in DOMAIN bg :
        (/\ t1 # t2
         /\ bg[t1].st = "running"
         /\ bg[t2].st = "running"
         /\ t1 \in DOMAIN db
         /\ t2 \in DOMAIN db
         /\ db[t1].user_id # NoUser) =>
            db[t1].user_id # db[t2].user_id

\* C36: a task that has a row and a cache entry has the same status in
\* both.
C36_TiersAgreeOnStatus ==
    \A t \in DOMAIN db \cap DOMAIN active_tasks :
        db[t].status = active_tasks[t].status

\* cancel_task has written cancelled to the row and to the entry of a task
\* whose run is still executing
C36_Witness ==
    \E t \in DOMAIN db \cap DOMAIN active_tasks :
        /\ db[t].status = "cancelled"
        /\ active_tasks[t].status = "cancelled"
        /\ bg[t].st = "running"

\* delete_task has removed the row of a task id that was handed out
Deleted(t) == t \in DOMAIN bg /\ t \notin DOMAIN db

\* C37: a deleted task has no cache entry, a status query for it answers
\* not found, and it stays deleted whatever its background task does.
C37_DeletionIsFinal ==
    /\ [](\A t \in TaskIds :
            Deleted(t) =>
                /\ t \notin DOMAIN active_tasks
                /\ TaskView(t).status = "not_found")
    /\ [][\A t \in TaskIds : Deleted(t) => Deleted(t)']_vars

\* the task was deleted before its background task started; the run then
\* made every callback up to the archive and process_video_task finished
C37_Witness ==
    \E t \in TaskIds :
        /\ Deleted(t)
        /\ t \notin DOMAIN active_tasks
        /\ bg[t].st = "finished"
        /\ bg[t].p.pc = "r_100"
        /\ bg[t].p.zip
        /\ t \in zip_files

\* C38: the directory of a deleted task, once removed, does not exist
\* again.
C38_DeletedDirStaysRemoved ==
    [][\A t \in TaskIds :
          (Deleted(t) /\ t \notin work_dirs) => t \notin work_dirs']_vars

\* C32: a sweep for an owner leaves unchanged every task that has a cache
\* entry, every task created less than the grace window ago, every terminal
\* task and every task of another owner, and writes no status but cancelled.
C32_SweepChangesOnlyOrphans ==
    \A u \in Users :
        LET swept == cleanup_stuck_tasks(db, active_tasks, u, now)
        IN  /\ DOMAIN swept = DOMAIN db
            /\ \A t \in DOMAIN db :
                  /\ (\/ t \in DOMAIN active_tasks
                      \/ now - db[t].created_at < GraceMinutes
                      \/ db[t].status \in TerminalStatuses
                      \/ db[t].user_id # u) => swept[t] = db[t]
                  /\ swept[t] # db[t] => swept[t].status = "cancelled"

\* C33: the progress of a task, in its cache entry and in its row, is an
\* integer from 0 to 100, however many entries the playlist has.
C33_ProgressWithinRange ==
    /\ \A t \in DOMAIN active_tasks : active_tasks[t].progress \in 0 .. 100
    /\ \A t \in DOMAIN db : db[t].progress \in 0 .. 100

\* a statement of update_task_progress that writes a tier
CallbackWrite(t) ==
    update_task_progress_cache(t) \/ update_task_progress_row(t)

\* C35: once cancel_task has set the flag of a task, no progress update of
\* its pipeline changes the progress or the message of its cache entry or
\* of its row.
C35_NoProgressAfterCancel ==
    [][\A t \in TaskIds :
          (Flagged(t) /\ CallbackWrite(t)) =>
              /\ active_tasks'[t].progress = active_tasks[t].progress
              /\ active_tasks'[t].message = active_tasks[t].message
              /\ t \in DOMAIN db =>
                    /\ db'[t].progress = db[t].progress
                    /\ db'[t].message = db[t].message]_vars

\* C39: a segment that is expert_labeled, needs_fix or reviewed has at
\* least one annotation, and a segment has a review comment only while it
\* is needs_fix.
C39_ReviewedSegmentsWellFormed ==
    \A seg \in DOMAIN segments :
        /\ segments[seg].status \in {"expert_labeled", "needs_fix", "reviewed"}
              => AnnotationsOf(seg) # {}
        /\ segments[seg].review_comment # NoComment
              => segments[seg].status = "needs_fix"
====
